---------------------------- MODULE Spec2Model ----------------------------
(***************************************************************************)
(* Backlinks tree of vscode-markdown-notes                                 *)
(* (src/src/BacklinksTreeDataProvider.ts).                                 *)
(*                                                                         *)
(* Strings are sequences of UTF-16 code units (integers), so that          *)
(* path.basename, the < and > of strings, split and substr are computed    *)
(* and not assumed.  An optional value (undefined, null) is the empty      *)
(* tuple << >>, a present value v is << v >>.                              *)
(*                                                                         *)
(* Three specifications share the module:                                  *)
(*   SpecGroup    locationListToTree as a pure function of its input;      *)
(*   SpecPreview  the BacklinkItem constructor of a leaf item;             *)
(*   Spec         getChildren, its two scans and its document reads.       *)
(***************************************************************************)
EXTENDS Integers, Sequences, FiniteSets, Bags

VARIABLES
    locations,        \* SpecGroup: the flat list handed to locationListToTree
    permuted,         \* SpecGroup: a permutation of the same list
    tree,             \* SpecGroup: << >> or << locationListToTree(locations) >>
    treeP,            \* SpecGroup: << >> or << locationListToTree(permuted) >>
    fileContents,     \* SpecPreview: the text of the source note
    location,         \* SpecPreview: the hit a leaf item is built for
    built,            \* SpecPreview: << >> or << the constructor's outcome >>
    corpus,           \* Spec: the references of the workspace, in walk order
    workspaceRoot,    \* Spec: the constructor's argument, << >> for null
    activeTextEditor, \* Spec: << >> or << fsPath of the active document >>
    calls             \* Spec: the bag of getChildren calls whose promise the
                      \*       tree view holds, pending or settled

groupVars == << locations, permuted, tree, treeP >>
previewVars == << fileContents, location, built >>
providerVars == << corpus, workspaceRoot, activeTextEditor, calls >>
vars == << groupVars, previewVars, providerVars >>

---------------------------------------------------------------------------
(* Bounds of the model.                                                    *)

\* longest flat list of locations handed to locationListToTree
MaxLen == 3

\* longest line of a source note, and last column a hit starts at, in the
\* preview of a leaf item
MaxLineLen == 44
MaxCol == 40

\* most references in the corpus of the workspace
MaxRefs == 2

\* most getChildren calls whose promise the tree view holds at once
MaxCalls == 2

---------------------------------------------------------------------------
(* Strings.                                                                *)

\* "/a.md", "/d/a.md", "/B.md": two notes sharing a basename in different
\* directories, and a basename whose first letter is upper case (ordinal
\* comparison puts "B.md" before "a.md").
PathA == << 47, 97, 46, 109, 100 >>
PathDA == << 47, 100, 47, 97, 46, 109, 100 >>
PathB == << 47, 66, 46, 109, 100 >>

\* "/constructor": a file without extension whose basename names a property
\* of Object.prototype
PathConstructor ==
    << 47, 99, 111, 110, 115, 116, 114, 117, 99, 116, 111, 114 >>

\* "/9" and "/10": basenames that are array indices
PathNine == << 47, 57 >>
PathTen == << 47, 49, 48 >>

RECURSIVE StripTrailingSlashes(_)
StripTrailingSlashes(p) ==
    IF p # << >> /\ p[Len(p)] = 47
    THEN StripTrailingSlashes(SubSeq(p, 1, Len(p) - 1))
    ELSE p

RECURSIVE AfterLastSlash(_, _)
AfterLastSlash(p, i) ==
    IF i = 0 THEN p
    ELSE IF p[i] = 47 THEN SubSeq(p, i + 1, Len(p))
    ELSE AfterLastSlash(p, i - 1)

\* path.basename(p) (posix): the trailing separators are ignored, and the
\* result is what follows the last remaining separator.
basename(p) ==
    LET q == StripTrailingSlashes(p) IN AfterLastSlash(q, Len(q))

\* a < b on two strings: the first differing code unit decides, a proper
\* prefix is smaller.
RECURSIVE StrLess(_, _)
StrLess(a, b) ==
    IF b = << >> THEN FALSE
    ELSE IF a = << >> THEN TRUE
    ELSE IF a[1] # b[1] THEN a[1] < b[1]
    ELSE StrLess(Tail(a), Tail(b))

\* the comparator asc of locationListToTree
asc(a, b) ==
    IF StrLess(a, b) THEN -1
    ELSE IF StrLess(b, a) THEN 1
    ELSE 0

---------------------------------------------------------------------------
(* locationListToTree.                                                     *)

Position(l, c) == [line |-> l, character |-> c]
Range(s, e) == [start |-> s, end |-> e]
Location(u, r) == [uri |-> u, range |-> r]

\* The properties every object literal inherits from Object.prototype: m[f]
\* finds them, all truthy, although m holds no such key of its own.
ObjectPrototypeKeys ==
    {
      \* constructor
      << 99, 111, 110, 115, 116, 114, 117, 99, 116, 111, 114 >>,
      \* hasOwnProperty
      << 104, 97, 115, 79, 119, 110, 80, 114, 111, 112, 101, 114, 116,
         121 >>,
      \* isPrototypeOf
      << 105, 115, 80, 114, 111, 116, 111, 116, 121, 112, 101, 79, 102
         >>,
      \* propertyIsEnumerable
      << 112, 114, 111, 112, 101, 114, 116, 121, 73, 115, 69, 110, 117,
         109, 101, 114, 97, 98, 108, 101 >>,
      \* toLocaleString
      << 116, 111, 76, 111, 99, 97, 108, 101, 83, 116, 114, 105, 110,
         103 >>,
      \* toString
      << 116, 111, 83, 116, 114, 105, 110, 103 >>,
      \* valueOf
      << 118, 97, 108, 117, 101, 79, 102 >>,
      \* __proto__
      << 95, 95, 112, 114, 111, 116, 111, 95, 95 >>,
      \* __defineGetter__
      << 95, 95, 100, 101, 102, 105, 110, 101, 71, 101, 116, 116, 101,
         114, 95, 95 >>,
      \* __defineSetter__
      << 95, 95, 100, 101, 102, 105, 110, 101, 83, 101, 116, 116, 101,
         114, 95, 95 >>,
      \* __lookupGetter__
      << 95, 95, 108, 111, 111, 107, 117, 112, 71, 101, 116, 116, 101,
         114, 95, 95 >>,
      \* __lookupSetter__
      << 95, 95, 108, 111, 111, 107, 117, 112, 83, 101, 116, 116, 101,
         114, 95, 95 >> }

\* "4294967294", the largest array index
MaxArrayIndex == << 52, 50, 57, 52, 57, 54, 55, 50, 57, 52 >>

\* a key that is an array index, "0", "9", "10", ...: the canonical decimal
\* form of an integer below 2^32 - 1
IsArrayIndex(f) ==
    /\ f # << >>
    /\ \A i \in DOMAIN f : f[i] >= 48 /\ f[i] <= 57
    /\ Len(f) = 1 \/ f[1] # 48
    /\ \/ Len(f) < Len(MaxArrayIndex)
       \/ Len(f) = Len(MaxArrayIndex) /\ ~ StrLess(MaxArrayIndex, f)

\* the numeric order of two array indices
IndexLess(a, b) ==
    Len(a) < Len(b) \/ (Len(a) = Len(b) /\ StrLess(a, b))

\* m is kept as the sequence of its own values in property order, the order
\* of Object.values(m): the array-index keys first, in ascending numeric
\* order, then the other keys in insertion order.
RECURSIVE DefineKey(_, _)
DefineKey(m, fwl) ==
    IF ~ IsArrayIndex(fwl.file) THEN Append(m, fwl)
    ELSE IF m = << >> THEN << fwl >>
    ELSE IF ~ IsArrayIndex(Head(m).file) \/ IndexLess(fwl.file, Head(m).file)
         THEN << fwl >> \o m
    ELSE << Head(m) >> \o DefineKey(Tail(m), fwl)

OwnKey(m, f) == \E i \in 1..Len(m) : m[i].file = f

\* m[f] is truthy: f is a key of m, or a property inherited from
\* Object.prototype
HasKey(m, f) == OwnKey(m, f) \/ f \in ObjectPrototypeKeys

\* m[f].locations.push(l)
PushLocation(ls, l) == Append(ls, l)

\* one step of locations.map: m[f] is set when !m[f], then l is pushed onto
\* m[f].locations.  When m[f] is an inherited property, its locations is
\* undefined and the push throws a TypeError.
AddLocation(m, l) ==
    LET f == basename(l.uri)
        m1 == IF HasKey(m, f) THEN m
              ELSE DefineKey(m, [file |-> f, locations |-> << >>])
    IN IF ~ OwnKey(m1, f) THEN [threw |-> TRUE, m |-> << >>]
       ELSE [threw |-> FALSE,
             m |-> [i \in 1..Len(m1) |->
                        IF m1[i].file = f
                        THEN [m1[i] EXCEPT !.locations = PushLocation(@, l)]
                        ELSE m1[i]]]

\* locations.map over the whole list; a throw of the callback ends it
RECURSIVE BuildMap(_, _)
BuildMap(m, ls) ==
    IF ls = << >> THEN [threw |-> FALSE, m |-> m]
    ELSE LET step == AddLocation(m, Head(ls))
         IN IF step.threw THEN step ELSE BuildMap(step.m, Tail(ls))

\* the comparator of arr.sort: asc on the file names
CompareFiles(a, b) == asc(a.file, b.file)

\* faulty variant: the characters are not compared
CompareLocations_LineOnly(locA, locB) ==
    LET a == locA.range.start
        b == locB.range.start
    IN IF a.line < b.line THEN -1
       ELSE IF a.line > b.line THEN 1
       ELSE 0

\* the comparator of fwl.locations.sort: line, then character, of the start
CompareLocations(locA, locB) ==
    LET a == locA.range.start
        b == locB.range.start
    IN IF a.line < b.line THEN -1
       ELSE IF a.line > b.line THEN 1
       ELSE IF a.character < b.character THEN -1
       ELSE IF a.character > b.character THEN 1
       ELSE 0

\* Array.prototype.sort is stable: x goes after every element that does not
\* compare greater than it.
RECURSIVE InsertFile(_, _)
InsertFile(s, x) ==
    IF s = << >> THEN << x >>
    ELSE IF CompareFiles(x, Head(s)) < 0 THEN << x >> \o s
    ELSE << Head(s) >> \o InsertFile(Tail(s), x)

RECURSIVE SortFilesFrom(_, _)
SortFilesFrom(done, rest) ==
    IF rest = << >> THEN done
    ELSE SortFilesFrom(InsertFile(done, Head(rest)), Tail(rest))

\* faulty variant: the files are left in insertion order
SortFiles_Unsorted(arr) == arr

SortFiles(arr) == SortFilesFrom(<< >>, arr)

RECURSIVE InsertLocation(_, _)
InsertLocation(s, x) ==
    IF s = << >> THEN << x >>
    ELSE IF CompareLocations(x, Head(s)) < 0 THEN << x >> \o s
    ELSE << Head(s) >> \o InsertLocation(Tail(s), x)

RECURSIVE SortLocationsFrom(_, _)
SortLocationsFrom(done, rest) ==
    IF rest = << >> THEN done
    ELSE SortLocationsFrom(InsertLocation(done, Head(rest)), Tail(rest))

SortLocations(ls) == SortLocationsFrom(<< >>, ls)

\* the outcome of locationListToTree(ls): the tree, or the TypeError thrown
\* while the map was built
locationListToTree(ls) ==
    LET built_m == BuildMap(<< >>, ls)
        arr == SortFiles(built_m.m)
    IN IF built_m.threw THEN [threw |-> TRUE, value |-> << >>]
       ELSE [threw |-> FALSE,
             value |-> [i \in 1..Len(arr) |->
                            [arr[i] EXCEPT !.locations = SortLocations(@)]]]

---------------------------------------------------------------------------
(* BacklinkItem.                                                           *)

\* an optional value read where the code reads it through || or ?.
Val(opt) == IF opt = << >> THEN << >> ELSE opt[1]

\* !x for an optional string: undefined, null and "" are falsy
Falsy(opt) == opt = << >> \/ opt[1] = << >>

\* the decimal digits of a natural number, as a template literal prints it
RECURSIVE Digits(_)
Digits(n) ==
    IF n < 10 THEN << 48 + n >> ELSE Digits(n \div 10) \o << 48 + (n % 10) >>

\* text.split(/\r?\n/): a line feed, with the carriage return before it when
\* there is one, ends a line; the last line is what remains, empty or not.
RECURSIVE SplitLines(_, _)
SplitLines(text, cur) ==
    IF text = << >> THEN << cur >>
    ELSE IF text[1] = 10 THEN << cur >> \o SplitLines(Tail(text), << >>)
    ELSE IF text[1] = 13 /\ Len(text) >= 2 /\ text[2] = 10
         THEN << cur >> \o SplitLines(Tail(Tail(text)), << >>)
    ELSE SplitLines(Tail(text), Append(cur, text[1]))

\* line.substr(s): a negative s counts from the end, an s past the end
\* gives the empty string
substr(line, s) ==
    LET from == IF s < 0
                THEN (IF Len(line) + s < 0 THEN 0 ELSE Len(line) + s)
                ELSE s
    IN SubSeq(line, from + 1, Len(line))

LookBack == 12
MinStart == 20

\* faulty variant: only a negative start is moved to column 0
PreviewStart_ClampNegative(character) ==
    LET s == character - LookBack IN IF s < 0 THEN 0 ELSE s

\* let s = character - 12; if (s < 20) { s = 0; }
PreviewStart(character) ==
    LET s == character - LookBack IN IF s < MinStart THEN 0 ELSE s

\* "Reference", "References"
ReferenceWord(n) ==
    IF n = 1
    THEN << 82, 101, 102, 101, 114, 101, 110, 99, 101 >>
    ELSE << 82, 101, 102, 101, 114, 101, 110, 99, 101, 115 >>

\* new BacklinkItem(label, collapsibleState, locations, location, filename,
\* fileContents).  The outcome is the item, or the TypeError of reading
\* substr of a line the contents do not have.  The fields kept are those a
\* query reads or returns; command, tooltip and iconPath are not modelled.
NewBacklinkItem(label, cs, locs, loc, filename, contents) ==
    LET item == [label |-> label, collapsibleState |-> cs,
                 locations |-> locs, location |-> loc,
                 filename |-> Val(filename), description |-> << >>]
    IN IF loc # << >>
       THEN LET lines == SplitLines(Val(contents), << >>)
                start == loc[1].range.start
            IN IF start.line + 1 > Len(lines)
               THEN [threw |-> TRUE, item |-> item]
               ELSE [threw |-> FALSE,
                     item |-> [item EXCEPT !.description =
                        substr(lines[start.line + 1],
                               PreviewStart(start.character))]]
       ELSE IF locs # << >>
       THEN [threw |-> FALSE,
             item |-> [item EXCEPT !.description =
                Digits(Len(locs[1])) \o << 32 >>
                    \o ReferenceWord(Len(locs[1]))]]
       ELSE [threw |-> FALSE, item |-> item]

fromFileWithLocations(fwl) ==
    NewBacklinkItem(fwl.file, "Expanded", << fwl.locations >>, << >>,
                    << fwl.file >>, << >>).item

\* fromLocation, from the document openTextDocument resolved to
fromLocation(loc, filename, text) ==
    LET lineNum == loc.range.start.line + 1
    IN NewBacklinkItem(Digits(lineNum) \o << 58 >>, "None", << >>,
                       << loc >>, filename, << text >>)

---------------------------------------------------------------------------
(* The workspace: NoteParser.searchBacklinksFor and openTextDocument.      *)

\* "B.md" is the note [[B]] and [c](B.md) point at, "a.md" likewise
Ref(u, l, k, t) ==
    [uri |-> u, kind |-> k, target |-> t,
     range |-> Range(Position(l, 5),
                     Position(l, IF k = "WikiLink" THEN 10 ELSE 14))]

\* The references a workspace may hold, in the order the walk of the
\* corpus meets them: /a.md and /d/a.md both point at B.md from the same
\* position, /B.md points at itself, from its second line, and at a.md.
RefUniverse ==
    << Ref(PathA, 0, "WikiLink", basename(PathB)),
       Ref(PathDA, 0, "Hyperlink", basename(PathB)),
       Ref(PathB, 1, "WikiLink", basename(PathB)),
       Ref(PathB, 0, "Hyperlink", basename(PathA)) >>

RECURSIVE Pick(_, _)
Pick(idx, i) ==
    IF i > Len(RefUniverse) THEN << >>
    ELSE (IF i \in idx THEN << RefUniverse[i] >> ELSE << >>) \o Pick(idx, i + 1)

Corpora ==
    { Pick(idx, 1) :
        idx \in { x \in SUBSET (1..Len(RefUniverse)) : Cardinality(x) <= MaxRefs } }

RECURSIVE Matching(_, _, _)
Matching(refs, activeFilename, kind) ==
    IF refs = << >> THEN << >>
    ELSE (IF Head(refs).target = activeFilename /\ Head(refs).kind = kind
          THEN << Location(Head(refs).uri, Head(refs).range) >>
          ELSE << >>) \o Matching(Tail(refs), activeFilename, kind)

\* what NoteParser.searchBacklinksFor(activeFilename, kind) resolves to: the
\* references of that kind to that basename, in walk order
searchBacklinksFor(activeFilename, kind) ==
    Matching(corpus, activeFilename, kind)

\* a line of n letters, each column its own letter
Line(n, first) == [i \in 1..n |-> first + ((i - 1) % 26)]

\* what openTextDocument(uri).getText() may give when a leaf item is built:
\* the two lines the note had when it was scanned, or the one line left
\* after an edit
DocTexts ==
    { Line(8, 97) \o << 10 >> \o Line(8, 65), Line(8, 97) }

---------------------------------------------------------------------------
(* getChildren.                                                            *)

ScanKind == << "WikiLink", "Hyperlink" >>

NoScan == [status |-> "none", value |-> << >>]

\* 'No refs in empty workspace'
NoRefsMessage ==
    << 78, 111, 32, 114, 101, 102, 115, 32, 105, 110, 32, 101, 109, 112,
       116, 121, 32, 119, 111, 114, 107, 115, 112, 97, 99, 101 >>

\* One getChildren call.  pc: scans | reads | resolved | rejected.  f is
\* the local f of the call, notice what the call handed to
\* showInformationMessage, locations the local locations of the
\* then-callback, order the scans in the order they settled.
NewCall ==
    [pc |-> "resolved", element |-> << >>, f |-> << >>, notice |-> << >>,
     scans |-> << NoScan, NoScan >>, order |-> << >>, locations |-> << >>,
     reads |-> << >>, result |-> << >>]

Calls == BagToSet(calls)
IsSettled(c) == c.pc \in { "resolved", "rejected" }
Replace(c, d) == (calls (-) SetToBag({ c })) (+) SetToBag({ d })

\* faulty variant: the active editor is not looked at
EarlyReturn_NoEditorCheck(f, root) ==
    IF Falsy(root) THEN "noWorkspace" ELSE "proceed"

\* faulty variant: the workspace root is not looked at
EarlyReturn_NoRootCheck(f, root) ==
    IF Falsy(f) THEN "noEditor" ELSE "proceed"

\* the two early returns of getChildren, in the order of the code
EarlyReturn(f, root) ==
    IF Falsy(f) THEN "noEditor"
    ELSE IF Falsy(root) THEN "noWorkspace"
    ELSE "proceed"

\* faulty variant: the callback runs as soon as one scan is fulfilled
AllFulfilled_Any(scans) ==
    \E i \in DOMAIN scans : scans[i].status = "ok"

\* Promise.all(...).then: the callback runs when every promise is fulfilled
AllFulfilled(scans) ==
    \A i \in DOMAIN scans : scans[i].status = "ok"

\* faulty variant: the results are concatenated in the order the scans settled
ConcatScans_ByCompletion(scans, order) ==
    IF Len(order) = 2
    THEN scans[order[1]].value \o scans[order[2]].value
    ELSE scans[1].value \o scans[2].value

\* arr[0].concat(arr[1]): Promise.all keeps the order of its argument
ConcatScans(scans, order) == scans[1].value \o scans[2].value

\* the then-callback of the top-level query: the file items, or the
\* TypeError locationListToTree threw
TopLevelItems(locs) ==
    LET filesWithLocations == locationListToTree(locs)
    IN IF filesWithLocations.threw THEN [threw |-> TRUE, items |-> << >>]
       ELSE [threw |-> FALSE,
             items |-> [i \in DOMAIN filesWithLocations.value |->
                fromFileWithLocations(filesWithLocations.value[i])]]

\* the elements the tree view holds and may ask the children of: the items
\* of the fulfilled calls
Elements ==
    UNION { { << c.result[i] >> : i \in DOMAIN c.result } : c \in Calls }

\* getChildren(element), up to the promise it returns; the calls made before
\* it may be pending
GetChildren(element) ==
    LET f == activeTextEditor
        call == [NewCall EXCEPT !.element = element, !.f = f]
        way == EarlyReturn(f, workspaceRoot)
        made ==
            IF way = "noEditor"
            THEN call
            ELSE IF way = "noWorkspace"
            THEN [call EXCEPT !.notice = << NoRefsMessage >>]
            ELSE IF element = << >>
            THEN [call EXCEPT !.pc = "scans",
                              !.scans = [i \in 1..2 |->
                                    [status |-> "pending", value |-> << >>]]]
            ELSE IF element[1].locations # << >>
            THEN LET n == Len(element[1].locations[1])
                 IN [call EXCEPT !.pc = IF n = 0 THEN "resolved" ELSE "reads",
                                 !.reads = [i \in 1..n |->
                                    [status |-> "pending", item |-> << >>]]]
            ELSE call
    IN /\ BagCardinality(calls) < MaxCalls
       /\ calls' = calls (+) SetToBag({ made })
       /\ UNCHANGED << corpus, workspaceRoot, activeTextEditor >>

\* scan i of call c is fulfilled; when that fulfils Promise.all the
\* then-callback concatenates, groups and builds the file items, and a throw
\* of the callback rejects the promise
ScanFulfil(c, i) ==
    LET activeFilename == basename(Val(c.f))
        scans == [c.scans EXCEPT ![i] =
                    [status |-> "ok",
                     value |-> searchBacklinksFor(activeFilename, ScanKind[i])]]
        order == Append(c.order, i)
        locs == ConcatScans(scans, order)
        made == TopLevelItems(locs)
    IN /\ c.pc = "scans"
       /\ c.scans[i].status = "pending"
       /\ calls' = Replace(c,
            IF ~ AllFulfilled(scans)
            THEN [c EXCEPT !.scans = scans, !.order = order]
            ELSE IF made.threw
            THEN [c EXCEPT !.pc = "rejected", !.scans = scans,
                           !.order = order, !.locations = << locs >>]
            ELSE [c EXCEPT !.pc = "resolved", !.scans = scans,
                           !.order = order, !.locations = << locs >>,
                           !.result = made.items])
       /\ UNCHANGED << corpus, workspaceRoot, activeTextEditor >>

\* scan i of call c is rejected, which rejects Promise.all and the promise
\* of the call with it; what the other scan does then is seen by nobody
ScanReject(c, i) ==
    /\ c.pc = "scans"
    /\ c.scans[i].status = "pending"
    /\ calls' = Replace(c, [c EXCEPT !.pc = "rejected",
                                     !.scans[i].status = "failed",
                                     !.order = Append(@, i)])
    /\ UNCHANGED << corpus, workspaceRoot, activeTextEditor >>

AllRead(reads) == \A i \in DOMAIN reads : reads[i].status = "ok"

\* openTextDocument of location i of call c resolves to text and
\* fromLocation builds its item, or throws, which rejects Promise.all and
\* the promise of the call with it
ReadFulfil(c, i, text) ==
    LET element == c.element[1]
        made == fromLocation(element.locations[1][i],
                             << element.filename >>, text)
        reads == [c.reads EXCEPT ![i] =
                    IF made.threw
                    THEN [status |-> "failed", item |-> << >>]
                    ELSE [status |-> "ok", item |-> << made.item >>]]
    IN /\ c.pc = "reads"
       /\ c.reads[i].status = "pending"
       /\ calls' = Replace(c,
            IF made.threw
            THEN [c EXCEPT !.pc = "rejected", !.reads = reads]
            ELSE IF AllRead(reads)
            THEN [c EXCEPT !.pc = "resolved", !.reads = reads,
                           !.result = [j \in DOMAIN reads |-> reads[j].item[1]]]
            ELSE [c EXCEPT !.reads = reads])
       /\ UNCHANGED << corpus, workspaceRoot, activeTextEditor >>

\* openTextDocument of location i of call c is rejected
ReadReject(c, i) ==
    /\ c.pc = "reads"
    /\ c.reads[i].status = "pending"
    /\ calls' = Replace(c, [c EXCEPT !.pc = "rejected",
                                     !.reads[i].status = "failed"])
    /\ UNCHANGED << corpus, workspaceRoot, activeTextEditor >>

\* the tree view lets go of a settled promise
Release(c) ==
    /\ IsSettled(c)
    /\ calls' = calls (-) SetToBag({ c })
    /\ UNCHANGED << corpus, workspaceRoot, activeTextEditor >>

\* the user opens, switches or closes the active editor
ActiveEditors == { << >>, << PathB >>, << PathA >> }

SetActiveEditor(ed) ==
    /\ ed # activeTextEditor
    /\ activeTextEditor' = ed
    /\ UNCHANGED << corpus, workspaceRoot, calls >>

---------------------------------------------------------------------------
(* SpecGroup: locationListToTree on every list of at most MaxLen           *)
(* locations, and on every permutation of it.                              *)

GroupPaths == { PathA, PathDA, PathB }
GroupStarts == { Position(0, 0), Position(0, 1), Position(1, 0) }

\* a wiki link [[b]] and a hyperlink [c](b.md) end 5 and 9 characters after
\* their start; the hits of one file never overlap, so a start has one end.
GroupLocations ==
    { Location(p, Range(s, Position(s.line, s.character + 5))) :
        p \in GroupPaths, s \in GroupStarts }
    \cup { Location(p, Range(Position(0, 0), Position(0, 5))) :
            p \in { PathConstructor, PathNine, PathTen } }

SeqsUpTo(S, n) == UNION { [1..k -> S] : k \in 0..n }

Reorderings(n) ==
    { f \in [1..n -> 1..n] : \A i, j \in 1..n : i # j => f[i] # f[j] }

GroupIdle ==
    /\ locations = << >>
    /\ permuted = << >>
    /\ tree = << >>
    /\ treeP = << >>

PreviewIdle ==
    /\ fileContents = << >>
    /\ location = Location(PathA, Range(Position(0, 0), Position(0, 0)))
    /\ built = << >>

ProviderIdle ==
    /\ corpus = << >>
    /\ workspaceRoot = << >>
    /\ activeTextEditor = << >>
    /\ calls = EmptyBag

InitGroup ==
    /\ locations \in SeqsUpTo(GroupLocations, MaxLen)
    /\ \E f \in Reorderings(Len(locations)) :
            permuted = [i \in 1..Len(locations) |-> locations[f[i]]]
    /\ tree = << >>
    /\ treeP = << >>
    /\ PreviewIdle
    /\ ProviderIdle

Group ==
    /\ tree = << >>
    /\ tree' = << locationListToTree(locations) >>
    /\ treeP' = << locationListToTree(permuted) >>
    /\ UNCHANGED << locations, permuted, previewVars, providerVars >>

NextGroup == Group

SpecGroup == InitGroup /\ [][NextGroup]_vars

---------------------------------------------------------------------------
(* SpecPreview: the constructor of a leaf item on every hit of the first   *)
(* two lines of a note.                                                    *)

PreviewTexts ==
    UNION { { Line(n, 97),
              Line(2, 65) \o << 10 >> \o Line(n, 97),
              Line(2, 65) \o << 13, 10 >> \o Line(n, 97) } : n \in 0..MaxLineLen }

InitPreview ==
    /\ fileContents \in PreviewTexts
    /\ \E l \in 0..1, c \in 0..MaxCol :
            location = Location(PathA, Range(Position(l, c), Position(l, c + 5)))
    /\ built = << >>
    /\ GroupIdle
    /\ ProviderIdle

Construct ==
    /\ built = << >>
    /\ built' = << fromLocation(location, << basename(location.uri) >>,
                                 fileContents) >>
    /\ UNCHANGED << fileContents, location, groupVars, providerVars >>

NextPreview == Construct

SpecPreview == InitPreview /\ [][NextPreview]_vars

---------------------------------------------------------------------------
(* Spec: the provider in a workspace, with at most MaxCalls getChildren     *)
(* calls held at a time, pending or settled.                               *)

WorkspaceRoots == { << >>, << << 47, 119 >> >> }

Init ==
    /\ corpus \in Corpora
    /\ workspaceRoot \in WorkspaceRoots
    /\ activeTextEditor \in ActiveEditors
    /\ calls = EmptyBag
    /\ GroupIdle
    /\ PreviewIdle

Next ==
    \/ \E element \in { << >> } \cup Elements :
            GetChildren(element) /\ UNCHANGED << groupVars, previewVars >>
    \/ \E c \in Calls, i \in 1..2 :
            ScanFulfil(c, i) /\ UNCHANGED << groupVars, previewVars >>
    \/ \E c \in Calls, i \in 1..2 :
            ScanReject(c, i) /\ UNCHANGED << groupVars, previewVars >>
    \/ \E c \in Calls : \E i \in DOMAIN c.reads, text \in DocTexts :
            ReadFulfil(c, i, text) /\ UNCHANGED << groupVars, previewVars >>
    \/ \E c \in Calls : \E i \in DOMAIN c.reads :
            ReadReject(c, i) /\ UNCHANGED << groupVars, previewVars >>
    \/ \E c \in Calls :
            Release(c) /\ UNCHANGED << groupVars, previewVars >>
    \/ \E ed \in ActiveEditors :
            SetActiveEditor(ed) /\ UNCHANGED << groupVars, previewVars >>

Spec == Init /\ [][Next]_vars

---------------------------------------------------------------------------
(* Properties of locationListToTree, under SpecGroup.                      *)

Grouped == tree # << >>
Returned == Grouped /\ ~ tree[1].threw
Tree == tree[1].value
TreeP == treeP[1].value

PosLeq(a, b) ==
    \/ a.line < b.line
    \/ a.line = b.line /\ a.character <= b.character

Count(s, x) == Cardinality({ i \in DOMAIN s : s[i] = x })

RECURSIVE Flatten(_)
Flatten(t) ==
    IF t = << >> THEN << >> ELSE Head(t).locations \o Flatten(Tail(t))

FileNames(t) == [i \in DOMAIN t |-> t[i].file]
Starts(t) ==
    [i \in DOMAIN t |->
        [j \in DOMAIN t[i].locations |-> t[i].locations[j].range.start]]

\* C1: in the tree locationListToTree returns the FileGroups are in
\* non-decreasing order of basename under ordinal comparison of code units,
\* and inside every FileGroup the hits are in non-decreasing order of their
\* start, compared as (line, character).
C1_Ordered ==
    Returned =>
        /\ \A i \in 1..(Len(Tree) - 1) :
                ~ StrLess(Tree[i + 1].file, Tree[i].file)
        /\ \A i \in DOMAIN Tree :
                \A j \in 1..(Len(Tree[i].locations) - 1) :
                    PosLeq(Tree[i].locations[j].range.start,
                           Tree[i].locations[j + 1].range.start)

\* an input that is in neither order, grouped into two FileGroups one of
\* which holds two hits on the same line, with "B.md" placed before "a.md"
C1_Witness ==
    /\ Returned
    /\ Len(locations) = 3
    /\ basename(locations[1].uri) = basename(PathA)
    /\ basename(locations[2].uri) = basename(PathB)
    /\ locations[1].range.start = Position(0, 1)
    /\ locations[3].range.start = Position(0, 0)
    /\ basename(locations[3].uri) = basename(PathA)
    /\ Len(Tree) = 2
    /\ Tree[1].file = basename(PathB)
    /\ Len(Tree[2].locations) = 2

\* C2 as stated: for every input list, grouping gives a tree in which every
\* location occurs exactly as often as in the input, so that the tree holds
\* as many hits as the input is long.
C2_NoDrop ==
    Grouped =>
        /\ Returned
        /\ \A l \in GroupLocations :
                Count(Flatten(Tree), l) = Count(locations, l)
        /\ Len(Flatten(Tree)) = Len(locations)

\* C3 as stated: two permutations of the same hits always give the same
\* tree, also when two distinguishable hits of one FileGroup share a start.
C3_Original == Grouped => (Returned /\ tree = treeP)

\* two distinguishable hits of one FileGroup with the same start
HasTie(ls) ==
    \E i, j \in DOMAIN ls :
        /\ ls[i] # ls[j]
        /\ basename(ls[i].uri) = basename(ls[j].uri)
        /\ ls[i].range.start = ls[j].range.start

\* C3 as amended: on two permutations of the same hits either both calls
\* throw or both return; when they return, the two trees have the same
\* sequence of FileGroup names, the same sequence of start positions inside
\* every FileGroup and the same hits with the same multiplicities inside
\* every FileGroup; and the two outcomes are identical whenever no two
\* distinguishable hits of one FileGroup share a start position.
C3_Amended ==
    Grouped =>
        /\ tree[1].threw = treeP[1].threw
        /\ FileNames(Tree) = FileNames(TreeP)
        /\ Starts(Tree) = Starts(TreeP)
        /\ \A i \in DOMAIN Tree : \A l \in GroupLocations :
                Count(Tree[i].locations, l) = Count(TreeP[i].locations, l)
        /\ (~ HasTie(locations)) => tree = treeP

\* a reordered input with a tie, whose two trees differ only in the order
\* of the tied hits
C3_Witness ==
    /\ Returned
    /\ permuted # locations
    /\ HasTie(locations)
    /\ tree # treeP
    /\ Len(Tree) = 2

\* C10 as stated: for every input list the tree partitions the input by
\* basename: the file names of the FileGroups are exactly the basenames of
\* the input, no two FileGroups share a file name, no FileGroup is empty,
\* and every hit lies in the FileGroup named by the basename of its path.
C10_Partition ==
    Grouped =>
        /\ Returned
        /\ { Tree[i].file : i \in DOMAIN Tree }
                = { basename(locations[k].uri) : k \in DOMAIN locations }
        /\ \A i, j \in DOMAIN Tree : Tree[i].file = Tree[j].file => i = j
        /\ \A i \in DOMAIN Tree :
                /\ Tree[i].locations # << >>
                /\ \A j \in DOMAIN Tree[i].locations :
                        basename(Tree[i].locations[j].uri) = Tree[i].file

---------------------------------------------------------------------------
(* Properties of the leaf item's preview, under SpecPreview.               *)

Built == built # << >>
HitLines == SplitLines(fileContents, << >>)
HitLineExists == location.range.start.line + 1 <= Len(HitLines)
HitLine == HitLines[location.range.start.line + 1]
HitChar == location.range.start.character

\* C9: for a hit starting at character c of a line the contents have, the
\* constructor does not throw and the preview is the suffix of that line
\* from offset s, where s = 0 when c - 12 < 20 and s = c - 12 otherwise: the
\* whole line for c = 5, the line from offset 28 for c = 40.
C9_Preview ==
    (Built /\ HitLineExists) =>
        LET s == IF HitChar - 12 < 20 THEN 0 ELSE HitChar - 12
            description == built[1].item.description
        IN /\ ~ built[1].threw
           /\ description = SubSeq(HitLine, s + 1, Len(HitLine))
           /\ \E i \in 1..(Len(HitLine) + 1) :
                    description = SubSeq(HitLine, i, Len(HitLine))
           /\ HitChar = 5 => description = HitLine
           /\ HitChar = 40 => description = SubSeq(HitLine, 29, Len(HitLine))

\* a hit at character 40 of the second line of a note with CRLF line ends:
\* the preview is the 16 characters from offset 28
C9_Witness ==
    /\ Built
    /\ fileContents = Line(2, 65) \o << 13, 10 >> \o Line(44, 97)
    /\ location.range.start = Position(1, 40)
    /\ ~ built[1].threw
    /\ built[1].item.description = SubSeq(Line(44, 97), 29, 44)
    /\ Len(built[1].item.description) = 16

---------------------------------------------------------------------------
(* Properties of getChildren, under Spec.                                  *)

ScansIssued(c) == \E i \in 1..2 : c.scans[i].status # "none"
TopLevelDone(c) == c.pc = "resolved" /\ c.locations # << >>

RECURSIVE HitCount(_)
HitCount(items) ==
    IF items = << >> THEN 0
    ELSE Len(Head(items).locations[1]) + HitCount(Tail(items))

\* C4: the two scans of a top-level query are issued together, before either
\* result is awaited, and the grouping runs only once both are fulfilled:
\* while a scan is pending or failed there are no grouped locations and no
\* result, and a result holds the hits of both scans.
C4_JoinBeforeGroup ==
    \A c \in Calls :
        /\ (c.scans[1].status = "none") <=> (c.scans[2].status = "none")
        /\ c.pc = "scans" =>
                /\ \A i \in 1..2 : c.scans[i].status \in { "pending", "ok" }
                /\ c.locations = << >> /\ c.result = << >>
        /\ c.locations # << >> =>
                /\ \A i \in 1..2 : c.scans[i].status = "ok"
                /\ c.locations[1] = c.scans[1].value \o c.scans[2].value
                /\ HitCount(c.result)
                        = Len(c.scans[1].value) + Len(c.scans[2].value)
        /\ (ScansIssued(c) /\ c.pc = "resolved") => c.locations # << >>

\* the hyperlink scan settled first, the wiki-link scan second, and the
\* tree holds the hits of both
C4_Witness ==
    \E c \in Calls :
        /\ c.pc = "resolved"
        /\ c.order = << 2, 1 >>
        /\ c.scans[1].value # << >>
        /\ c.scans[2].value # << >>
        /\ HitCount(c.result) = 2

\* C5: with the corpus and the active note fixed, a top-level query returns
\* the same items whichever scan completes first: any two fulfilled
\* top-level queries for the same active note hold the same result.
C5_SameTree ==
    \A c, d \in Calls :
        (TopLevelDone(c) /\ TopLevelDone(d) /\ c.f = d.f)
            => c.result = d.result

\* two runs for B.md that differ in the order the scans completed, each
\* scan giving one hit of the FileGroup a.md at the same start
C5_Witness ==
    \E c, d \in Calls :
        /\ TopLevelDone(c) /\ TopLevelDone(d) /\ c.f = d.f
        /\ c.order = << 1, 2 >>
        /\ d.order = << 2, 1 >>
        /\ Len(d.result) = 1
        /\ Len(d.result[1].locations[1]) = 2
        /\ d.result[1].locations[1][1].uri = PathA
        /\ d.result[1].locations[1][2].uri = PathDA
        /\ d.result[1].locations[1][1].range.start
                = d.result[1].locations[1][2].range.start

\* C6 as stated, for the leaf items of a FileGroup: when the content of one
\* source note cannot be read while the leaf items are built, the query
\* does not fail as a whole.  (The same holds of a top-level query one of
\* whose scans fails: ScanReject rejects it.)
C6_NeverRejected ==
    \A c \in Calls : c.element # << >> => c.pc # "rejected"

\* C7: a query made with no active note, at the top level or for the
\* children of a file item, returns the empty list and issues neither a
\* scan nor a document read.
C7_NoActiveNote ==
    \A c \in Calls :
        Falsy(c.f) =>
            /\ c.pc = "resolved"
            /\ c.result = << >>
            /\ ~ ScansIssued(c)
            /\ c.reads = << >>

\* the children of a file item holding two hits are asked for after the
\* editor was closed
C7_Witness ==
    \E c \in Calls :
        /\ Falsy(c.f)
        /\ c.pc = "resolved"
        /\ c.element # << >>
        /\ c.element[1].locations # << >>
        /\ Len(c.element[1].locations[1]) = 2
        /\ ~ Falsy(workspaceRoot)

\* C8 as stated: with no workspace root every query returns the empty list
\* and shows the notice, whatever the active editor.
C8_Original ==
    \A c \in Calls :
        Falsy(workspaceRoot) =>
            /\ c.pc = "resolved"
            /\ c.result = << >>
            /\ c.notice = << NoRefsMessage >>

\* C8 as amended: with no workspace root every query returns the empty
\* list, and it shows the notice exactly when there is an active note: with
\* no active note it returns before the workspace root is looked at.
C8_Amended ==
    \A c \in Calls :
        Falsy(workspaceRoot) =>
            /\ c.pc = "resolved"
            /\ c.result = << >>
            /\ ~ ScansIssued(c)
            /\ c.notice = IF Falsy(c.f) THEN << >> ELSE << NoRefsMessage >>

\* B.md is active and the corpus holds references to it, yet without a
\* workspace root the query is empty and the notice is shown
C8_Witness ==
    \E c \in Calls :
        /\ Falsy(workspaceRoot)
        /\ c.f = << PathB >>
        /\ c.notice = << NoRefsMessage >>
        /\ c.result = << >>
        /\ searchBacklinksFor(basename(PathB), "WikiLink") # << >>

=============================================================================
